---- MODULE Spec2Model ----
(***************************************************************************)
(* A model of slate-react's Node component                                 *)
(* (packages/slate-react/src/components/node.js): the range projection     *)
(* getRelativeRange, the children props built by render, and the update    *)
(* gate shouldComponentUpdate.                                             *)
(*                                                                         *)
(* JavaScript values are modelled as follows.                              *)
(*   - An optional value (a value or null/undefined) is a sequence of      *)
(*     length 0 or 1: None is null/undefined, Some(x) is x.                *)
(*   - Child indices are 0-based as in the code; nodes.get(i) reads the    *)
(*     (i+1)-th element of the TLA+ sequence.                              *)
(*   - A node is a record [object, ref, key, text, nodes]; ref stands for  *)
(*     the JavaScript object identity of the immutable node value.         *)
(*   - Documents are normalized: every block and inline holds a text.      *)
(***************************************************************************)
EXTENDS Integers, Sequences, FiniteSets, TLC

VARIABLES
  pc,          \* position of the process the specification describes
  node,        \* getRelativeRange: the node argument
  range,       \* getRelativeRange: the range argument
  index,       \* getRelativeRange: the index argument
  relative,    \* getRelativeRange: the returned value (None is null)
  raised,      \* getRelativeRange: whether the call threw
  props,       \* Node component: this.props
  nextProps,   \* Node component: the props of the incoming pass
  verdict,     \* what editor.run('shouldNodeComponentUpdate', ...) returned
  update,      \* what shouldComponentUpdate returned
  warned,      \* whether shouldComponentUpdate issued its warning
  newDecorations, \* what node.getDecorations(editor) returned in the last render
  children,    \* the props render built for each child in the old pass
  nextChildren, \* the props render built for each child in the new pass
  childUpdate  \* per child: what the child's shouldComponentUpdate returned

vars == <<pc, node, range, index, relative, raised, props, nextProps, verdict,
          update, warned, newDecorations, children, nextChildren, childUpdate>>

\* ------------------------------------------------------------------ bounds

\* Largest number of children of a node under projection.
MaxKids == 3

\* Largest number of decorations node.getDecorations returns in one render.
MaxDecs == 2

\* ------------------------------------------------------- JavaScript values

None == <<>>
Some(x) == <<x>>

\* x === i for an optional number x and a number i.
StrictEq(x, i) == x = <<i>>

\* x < y and x <= y for optional numbers: a comparison with undefined is false.
JsLt(x, y) == x # None /\ y # None /\ x[1] < y[1]
JsLe(x, y) == x # None /\ y # None /\ x[1] <= y[1]

\* Immutable List: first() is undefined on an empty list, rest() drops the head.
first(path) == IF path = <<>> THEN None ELSE Some(Head(path))
rest(path) == IF path = <<>> THEN <<>> ELSE Tail(path)

\* Immutable List: get(i), 0-based, undefined when out of range.
get(list, i) == IF i >= 0 /\ i < Len(list) THEN Some(list[i + 1]) ELSE None

\* PathUtils.create([index])
create(array) == array

Reverse(s) == [j \in 1..Len(s) |-> s[Len(s) + 1 - j]]

\* ------------------------------------------------------------ the document

\* ref is the identity of the immutable value (a new value after an edit), key
\* is the node's key, which an edit keeps.
Text(ref, key, chars) ==
  [object |-> "text", ref |-> ref, key |-> key, text |-> chars, nodes |-> <<>>]
Inline(ref, key, kids) ==
  [object |-> "inline", ref |-> ref, key |-> key, text |-> <<>>, nodes |-> kids]
Block(ref, key, kids) ==
  [object |-> "block", ref |-> ref, key |-> key, text |-> <<>>, nodes |-> kids]

\* node.texts(): the text descendants with their paths relative to the node,
\* in forward depth-first order; {direction: 'backward'} reverses the order.
RECURSIVE texts(_), textsFrom(_, _)
texts(n) == textsFrom(n.nodes, 1)
textsFrom(nodes, i) ==
  IF i > Len(nodes) THEN <<>>
  ELSE LET child == nodes[i]
           below == texts(child)
           here == IF child.object = "text"
                   THEN << [node |-> child, path |-> <<i - 1>>] >>
                   ELSE [j \in 1..Len(below) |->
                           [node |-> below[j].node, path |-> <<i - 1>> \o below[j].path]]
       IN here \o textsFrom(nodes, i + 1)

textsBackward(n) == Reverse(texts(n))

\* ------------------------------------------------------- points and ranges

Point(path, offset) == [path |-> path, offset |-> offset]

\* point.setPath(path): the same point at another path.
setPath(point, path) == [point EXCEPT !.path = path]

\* point.moveTo(path, offset): the point at another path and offset.
moveTo(point, path, offset) == [point EXCEPT !.path = path, !.offset = offset]

\* range.setStart(point), range.setEnd(point): the same range (kind, focus
\* flag, mark or key) with one endpoint replaced.
setStart(r, point) == [r EXCEPT !.start = point]
setEnd(r, point) == [r EXCEPT !.end = point]

\* ------------------------------------------------------- getRelativeRange

\* RelativeStart with the rebased start left at its path in the parent's space.
RelativeStartNoShift(n, i, r) ==
  LET child == get(n.nodes, i)[1]
      startIndex == first(r.start.path)
      endIndex == first(r.end.path)
  IN IF StrictEq(startIndex, i) THEN Some(r.start)
     ELSE IF JsLt(startIndex, Some(i)) /\ JsLe(Some(i), endIndex)
     THEN IF child.object = "text"
          THEN Some(moveTo(r.start, create(<<i>>), 0))
          ELSE Some(moveTo(r.start, Head(texts(child)).path, 0))
     ELSE None

\* RelativeStart with index < endIndex in place of index <= endIndex.
RelativeStartStrict(n, i, r) ==
  LET child == get(n.nodes, i)[1]
      startIndex == first(r.start.path)
      endIndex == first(r.end.path)
  IN IF StrictEq(startIndex, i) THEN Some(setPath(r.start, rest(r.start.path)))
     ELSE IF JsLt(startIndex, Some(i)) /\ JsLt(Some(i), endIndex)
     THEN IF child.object = "text"
          THEN Some(moveTo(r.start, create(<<i>>), 0))
          ELSE Some(moveTo(r.start, Head(texts(child)).path, 0))
     ELSE None

\* The start of `r` relative to the child at `i` (None: the start is null).
RelativeStart(n, i, r) ==
  LET child == get(n.nodes, i)[1]
      startIndex == first(r.start.path)
      endIndex == first(r.end.path)
  IN IF StrictEq(startIndex, i) THEN Some(setPath(r.start, rest(r.start.path)))
     ELSE IF JsLt(startIndex, Some(i)) /\ JsLe(Some(i), endIndex)
     THEN IF child.object = "text"
          THEN Some(moveTo(r.start, create(<<i>>), 0))
          ELSE Some(moveTo(r.start, Head(texts(child)).path, 0))
     ELSE None

\* RelativeEnd without the index < endIndex guard of the clamp.
RelativeEndOpen(n, i, r) ==
  LET child == get(n.nodes, i)[1]
      startIndex == first(r.start.path)
      endIndex == first(r.end.path)
  IN IF StrictEq(endIndex, i) THEN Some(setPath(r.end, rest(r.end.path)))
     ELSE IF JsLe(startIndex, Some(i))
     THEN IF child.object = "text"
          THEN Some(moveTo(r.end, create(<<i>>), Len(child.text)))
          ELSE LET last == Head(textsBackward(child))
               IN Some(moveTo(r.end, last.path, Len(last.node.text)))
     ELSE None

\* The end of `r` relative to the child at `i` (None: the end is null).
RelativeEnd(n, i, r) ==
  LET child == get(n.nodes, i)[1]
      startIndex == first(r.start.path)
      endIndex == first(r.end.path)
  IN IF StrictEq(endIndex, i) THEN Some(setPath(r.end, rest(r.end.path)))
     ELSE IF JsLe(startIndex, Some(i)) /\ JsLt(Some(i), endIndex)
     THEN IF child.object = "text"
          THEN Some(moveTo(r.end, create(<<i>>), Len(child.text)))
          ELSE LET last == Head(textsBackward(child))
               IN Some(moveTo(r.end, last.path, Len(last.node.text)))
     ELSE None

\* Whether the call throws: a clamp onto a child that is not a text and has
\* no text descendant destructures undefined.
Throws(n, i, r) ==
  LET child == get(n.nodes, i)[1]
      startIndex == first(r.start.path)
      endIndex == first(r.end.path)
      clampStart == ~StrictEq(startIndex, i) /\ JsLt(startIndex, Some(i))
                      /\ JsLe(Some(i), endIndex)
      clampEnd == ~StrictEq(endIndex, i) /\ JsLe(startIndex, Some(i))
                    /\ JsLt(Some(i), endIndex)
  IN (clampStart \/ clampEnd) /\ child.object # "text" /\ texts(child) = <<>>

getRelativeRange(n, i, r) ==
  LET start == RelativeStart(n, i, r)
      end == RelativeEnd(n, i, r)
  IN IF start = None \/ end = None THEN None
     ELSE Some(setEnd(setStart(r, start[1]), end[1]))

\* --------------------------------------------- inputs of getRelativeRange

Hello == <<"H", "e", "l", "l", "o">>
World == <<"W", "o", "r", "l", "d">>

\* An inline whose first text is empty and whose last text is not, around a
\* nested inline.
Link == Inline("link", "l", <<Text("t0", "l0", <<>>),
                              Inline("em", "l1", <<Text("t1", "l10", <<"a", "b">>)>>),
                              Text("t2", "l2", World)>>)

Kids == {Text("e", "e", <<>>), Text("h", "h", Hello), Link}

RECURSIVE SeqsUpTo(_, _)
SeqsUpTo(S, n) ==
  IF n = 0 THEN {<<>>}
  ELSE LET shorter == SeqsUpTo(S, n - 1)
       IN shorter \cup {Append(s, x) : s \in shorter, x \in S}

HelloWorld == Block("hw", "hw", <<Text("h", "h", Hello), Text("w", "w", World)>>)

Nodes == {Block("b", "b", kids) : kids \in SeqsUpTo(Kids, MaxKids) \ {<<>>}} \cup {HelloWorld}

\* The points of a node's own space that resolve to a text with an offset
\* inside it.
WellFormedPoints(n) ==
  LET ts == texts(n)
  IN UNION {{Point(ts[j].path, o) : o \in 0..Len(ts[j].node.text)} : j \in 1..Len(ts)}

\* Points whose leading path component is missing or past the last child.
MalformedPoints(n) ==
  {Point(<<>>, 0), Point(<<Len(n.nodes)>>, 0), Point(<<Len(n.nodes) + 1, 0>>, 0)}

Points(n) == WellFormedPoints(n) \cup MalformedPoints(n)

Selection(s, e, focused) ==
  [start |-> s, end |-> e, kind |-> "selection", isFocused |-> focused, tag |-> "none"]
Decoration(s, e, mark) ==
  [start |-> s, end |-> e, kind |-> "decoration", isFocused |-> FALSE, tag |-> mark]
Annotation(s, e, key) ==
  [start |-> s, end |-> e, kind |-> "annotation", isFocused |-> FALSE, tag |-> key]

Ranges(n) ==
  {Selection(s, e, TRUE) : s \in Points(n), e \in Points(n)}
    \cup {Decoration(s, e, "bold") : s \in Points(n), e \in Points(n)}

Idle == <<>>

\* ------------------------------------ specification: one projection call

InitProject ==
  /\ pc = "call"
  /\ node \in Nodes
  /\ range \in Ranges(node)
  /\ index = 0
  /\ relative = None
  /\ raised = FALSE
  /\ props = Idle /\ nextProps = Idle /\ verdict = Idle
  /\ update = FALSE /\ warned = FALSE
  /\ newDecorations = Idle /\ children = Idle /\ nextChildren = Idle
  /\ childUpdate = Idle

\* getRelativeRange(node, i, range) for one child index i, as render calls it.
Project ==
  /\ pc = "call"
  /\ \E i \in 0..(Len(node.nodes) - 1) :
       /\ index' = i
       /\ raised' = Throws(node, i, range)
       /\ relative' = IF Throws(node, i, range) THEN None
                      ELSE getRelativeRange(node, i, range)
  /\ pc' = "returned"
  /\ UNCHANGED <<node, range, props, nextProps, verdict, update, warned,
                 newDecorations, children, nextChildren, childUpdate>>

NextProject == Project

SpecProject == InitProject /\ [][NextProject]_vars

\* ------------------------------------------------- shouldComponentUpdate

\* JavaScript truthiness of an optional boolean: undefined and false are falsy.
Truthy(x) == x = Some(TRUE)

\* Immutable Map equals: the same keys with equal values, whatever the order
\* of insertion. A map is a sequence of [key, value] entries with unique keys.
Entries(m) == {m[j] : j \in 1..Len(m)}
MapEquals(a, b) == Entries(a) = Entries(b)

\* Immutable List equals: equal elements in the same order.
ListEquals(a, b) == a = b

\* shouldComponentUpdate obeying a false verdict of the hook.
shouldComponentUpdateVeto(p, n, shouldUpdate) ==
  IF shouldUpdate # None THEN shouldUpdate[1]
  ELSE IF n.readOnly # p.readOnly THEN TRUE
  ELSE IF n.node # p.node THEN TRUE
  ELSE IF Truthy(n.isSelected) \/ Truthy(p.isSelected) THEN TRUE
  ELSE IF Truthy(n.isFocused) \/ Truthy(p.isFocused) THEN TRUE
  ELSE IF ~MapEquals(n.annotations, p.annotations) THEN TRUE
  ELSE IF ~ListEquals(n.decorations, p.decorations) THEN TRUE
  ELSE FALSE

\* shouldComponentUpdate with the test of the annotations negated.
shouldComponentUpdateNegated(p, n, shouldUpdate) ==
  IF shouldUpdate # None /\ Truthy(shouldUpdate) THEN TRUE
  ELSE IF n.readOnly # p.readOnly THEN TRUE
  ELSE IF n.node # p.node THEN TRUE
  ELSE IF Truthy(n.isSelected) \/ Truthy(p.isSelected) THEN TRUE
  ELSE IF Truthy(n.isFocused) \/ Truthy(p.isFocused) THEN TRUE
  ELSE IF MapEquals(n.annotations, p.annotations) THEN TRUE
  ELSE IF ~ListEquals(n.decorations, p.decorations) THEN TRUE
  ELSE FALSE

\* shouldComponentUpdate comparing the focused flags instead of testing them.
shouldComponentUpdateFocusDiffers(p, n, shouldUpdate) ==
  IF shouldUpdate # None /\ Truthy(shouldUpdate) THEN TRUE
  ELSE IF n.readOnly # p.readOnly THEN TRUE
  ELSE IF n.node # p.node THEN TRUE
  ELSE IF Truthy(n.isSelected) \/ Truthy(p.isSelected) THEN TRUE
  ELSE IF Truthy(n.isFocused) # Truthy(p.isFocused) THEN TRUE
  ELSE IF ~MapEquals(n.annotations, p.annotations) THEN TRUE
  ELSE IF ~ListEquals(n.decorations, p.decorations) THEN TRUE
  ELSE FALSE

\* shouldComponentUpdate(nextProps) of a component whose this.props is p, with
\* shouldUpdate what editor.run('shouldNodeComponentUpdate', p, n) returned.
shouldComponentUpdate(p, n, shouldUpdate) ==
  IF shouldUpdate # None /\ Truthy(shouldUpdate) THEN TRUE
  ELSE IF n.readOnly # p.readOnly THEN TRUE
  ELSE IF n.node # p.node THEN TRUE
  ELSE IF Truthy(n.isSelected) \/ Truthy(p.isSelected) THEN TRUE
  ELSE IF Truthy(n.isFocused) \/ Truthy(p.isFocused) THEN TRUE
  ELSE IF ~MapEquals(n.annotations, p.annotations) THEN TRUE
  ELSE IF ~ListEquals(n.decorations, p.decorations) THEN TRUE
  ELSE FALSE

\* warning(shouldUpdate !== false, ...) is reached with a verdict that is
\* neither null nor truthy, and warns when its condition is false.
Warns(shouldUpdate) ==
  shouldUpdate # None /\ ~Truthy(shouldUpdate) /\ ~(shouldUpdate # Some(FALSE))

\* What the hook can return: nothing, true or false.
Verdicts == {None, Some(TRUE), Some(FALSE)}

\* ------------------------------------------ inputs of shouldComponentUpdate

Flags == {None, Some(FALSE), Some(TRUE)}

\* Two values of one text node: the same content, another identity.
GateNodes == {Text("h", "h", Hello), Text("h'", "h", Hello)}

GateBold == Decoration(Point(<<>>, 0), Point(<<>>, 2), "bold")
GateEm == Decoration(Point(<<>>, 1), Point(<<>>, 3), "em")
GateDecorations == {<<>>, <<GateBold, GateEm>>, <<GateEm, GateBold>>}

GateNote == [key |-> "c1", value |-> Annotation(Point(<<>>, 0), Point(<<>>, 1), "c1")]
GateFlag == [key |-> "c2", value |-> Annotation(Point(<<>>, 2), Point(<<>>, 4), "c2")]
GateAnnotations == {<<>>, <<GateNote, GateFlag>>, <<GateFlag, GateNote>>}

GateProps ==
  [node : GateNodes, readOnly : BOOLEAN, isSelected : Flags, isFocused : Flags,
   annotations : GateAnnotations, decorations : GateDecorations,
   selection : {None}, block : {None}, parent : {None}]

\* ------------------------- specification: one call of shouldComponentUpdate

InitGate ==
  /\ pc = "props"
  /\ props \in GateProps
  /\ nextProps \in GateProps
  /\ verdict = None
  /\ update = FALSE /\ warned = FALSE
  /\ node = Idle /\ range = Idle /\ index = 0 /\ relative = None /\ raised = FALSE
  /\ newDecorations = Idle /\ children = Idle /\ nextChildren = Idle
  /\ childUpdate = Idle

\* shouldComponentUpdate(nextProps), the hook returning v.
Gate ==
  /\ pc = "props"
  /\ \E v \in Verdicts :
       /\ verdict' = v
       /\ update' = shouldComponentUpdate(props, nextProps, v)
       /\ warned' = Warns(v)
  /\ pc' = "gated"
  /\ UNCHANGED <<node, range, index, relative, raised, props, nextProps,
                 newDecorations, children, nextChildren, childUpdate>>

NextGate == Gate

SpecGate == InitGate /\ [][NextGate]_vars

\* ----------------------------------------------------------------- render

\* list.map(f).filter(x => x) for the projection onto child i.
Projected(n, i, list) ==
  LET mapped == [j \in 1..Len(list) |-> getRelativeRange(n, i, list[j])]
      kept == SelectSeq(mapped, LAMBDA x : x # None)
  IN [j \in 1..Len(kept) |-> kept[j][1]]

\* map.map(f).filter(x => x): the entries keep their keys.
ProjectedEntries(n, i, map) ==
  LET mapped == [j \in 1..Len(map) |->
                   [key |-> map[j].key, value |-> getRelativeRange(n, i, map[j].value)]]
      kept == SelectSeq(mapped, LAMBDA e : e.value # None)
  IN [j \in 1..Len(kept) |-> [key |-> kept[j].key, value |-> kept[j].value[1]]]

\* The props of the child at i, fresh being node.getDecorations(editor). The
\* element is given no isSelected and no isFocused prop.
ChildProps(p, fresh, i) ==
  LET child == p.node.nodes[i + 1]
  IN [component |-> IF child.object = "text" THEN "Text" ELSE "Node",
      block |-> IF p.node.object = "block" THEN Some(p.node) ELSE p.block,
      annotations |-> ProjectedEntries(p.node, i, p.annotations),
      decorations |-> Projected(p.node, i, fresh) \o p.decorations,
      selection |-> IF p.selection # None
                    THEN getRelativeRange(p.node, i, p.selection[1])
                    ELSE None,
      key |-> child.key,
      node |-> child,
      parent |-> Some(p.node),
      readOnly |-> p.readOnly,
      isSelected |-> None,
      isFocused |-> None]

\* render with every decoration projected, the inherited ones too.
renderProjectAll(p, fresh) ==
  [j \in 1..Len(p.node.nodes) |->
     [ChildProps(p, fresh, j - 1) EXCEPT
        !.decorations = Projected(p.node, j - 1, fresh \o p.decorations)]]

\* The children of render().
render(p, fresh) == [j \in 1..Len(p.node.nodes) |-> ChildProps(p, fresh, j - 1)]

\* What React asks the Node component it keeps for a child of the new pass:
\* its shouldComponentUpdate on the props of the old and the new pass, the hook
\* giving no opinion. None for a Text component and for a newly mounted child.
ChildGate(old, new) ==
  LET same == {k \in 1..Len(old) : old[k].key = new.key}
  IN IF new.component = "Node" /\ same # {}
     THEN Some(shouldComponentUpdate(old[CHOOSE k \in same : TRUE], new, None))
     ELSE None

\* ------------------------------------------------------- inputs of render

Para == Block("p1", "p", <<Text("x1", "x", Hello), Link, Text("y", "y", <<>>)>>)

\* Para after an edit of its first text: the link is the same value.
ParaEdited == Block("p2", "p", <<Text("x2", "x", World), Link, Text("y", "y", <<>>)>>)

InLink == Selection(Point(<<1, 1, 0>>, 1), Point(<<1, 1, 0>>, 2), TRUE)
Across == Selection(Point(<<0>>, 2), Point(<<2>>, 0), FALSE)

Inherited == <<Decoration(Point(<<0>>, 0), Point(<<0>>, 1), "inherited")>>

Comment == [key |-> "c1", value |-> Annotation(Point(<<0>>, 0), Point(<<1, 0>>, 0), "c1")]

RenderProps ==
  [node : {Para, ParaEdited}, readOnly : BOOLEAN,
   selection : {None, Some(InLink), Some(Across)},
   annotations : {<<>>, <<Comment>>}, decorations : {Inherited},
   block : {None}, parent : {None}, isSelected : {None}, isFocused : {None}]

\* What node.getDecorations(editor) may return.
FreshDecorations ==
  {Decoration(Point(<<1, 1, 0>>, 0), Point(<<1, 1, 0>>, 2), "bold"),
   Decoration(Point(<<0>>, 1), Point(<<2>>, 0), "em")}
FreshLists == SeqsUpTo(FreshDecorations, MaxDecs)

\* ------------------------------ specification: two passes of one component

Init ==
  /\ pc = "mount"
  /\ props \in RenderProps
  /\ nextProps = Idle /\ verdict = None
  /\ update = FALSE /\ warned = FALSE
  /\ node = Idle /\ range = Idle /\ index = 0 /\ relative = None /\ raised = FALSE
  /\ newDecorations = Idle /\ children = Idle /\ nextChildren = Idle
  /\ childUpdate = Idle

\* The first render().
Render ==
  /\ pc = "mount"
  /\ \E fresh \in FreshLists :
       /\ newDecorations' = fresh
       /\ children' = render(props, fresh)
  /\ pc' = "rendered"
  /\ UNCHANGED <<node, range, index, relative, raised, props, nextProps, verdict,
                 update, warned, nextChildren, childUpdate>>

\* The parent hands the component new props: shouldComponentUpdate(nextProps).
Receive ==
  /\ pc = "rendered"
  /\ \E np \in RenderProps, v \in Verdicts :
       /\ nextProps' = np
       /\ verdict' = v
       /\ update' = shouldComponentUpdate(props, np, v)
       /\ warned' = Warns(v)
  /\ pc' = "gated"
  /\ UNCHANGED <<node, range, index, relative, raised, props, newDecorations,
                 children, nextChildren, childUpdate>>

\* The gate said update: render() with the new props, and React asks each
\* child component it keeps whether to update.
Rerender ==
  /\ pc = "gated"
  /\ update
  /\ \E fresh \in FreshLists :
       /\ newDecorations' = fresh
       /\ nextChildren' = render(nextProps, fresh)
       /\ childUpdate' = [j \in 1..Len(nextChildren') |->
                            ChildGate(children, nextChildren'[j])]
  /\ pc' = "rerendered"
  /\ UNCHANGED <<node, range, index, relative, raised, props, nextProps, verdict,
                 update, warned, children>>

\* The gate said no update: the old output is kept.
Skip ==
  /\ pc = "gated"
  /\ ~update
  /\ pc' = "skipped"
  /\ UNCHANGED <<node, range, index, relative, raised, props, nextProps, verdict,
                 update, warned, newDecorations, children, nextChildren, childUpdate>>

Next == Render \/ Receive \/ Rerender \/ Skip

Spec == Init /\ [][Next]_vars

\* ------------------------------------------ claims about getRelativeRange

StartIndex == first(range.start.path)
EndIndex == first(range.end.path)
Child == node.nodes[index + 1]
Returned == pc = "returned"

\* C1. Projection partition: for a range whose start and end leading path
\* components are startIndex <= endIndex, the projection onto child i is
\* non-null exactly when startIndex <= i <= endIndex.
ProjectionPartition ==
  (Returned /\ JsLe(StartIndex, EndIndex)) =>
    /\ ~raised
    /\ (relative # None) <=> (JsLe(StartIndex, Some(index)) /\ JsLe(Some(index), EndIndex))

\* A range inside child 0 was projected onto child 2 and came back null.
ProjectionPartitionWitness ==
  /\ Returned
  /\ StartIndex = Some(0) /\ EndIndex = Some(0)
  /\ range.start \in WellFormedPoints(node) /\ range.end \in WellFormedPoints(node)
  /\ index = 2
  /\ relative = None

\* C2. Clamping onto a text child yields the empty child-relative path: the
\* start clamps to ([], 0) and the end to ([], length of the child's text).
ClampOntoTextIsChildRelative ==
  (Returned /\ Child.object = "text") =>
    /\ (JsLt(StartIndex, Some(index)) /\ JsLe(Some(index), EndIndex)) =>
         (relative # None /\ relative[1].start = Point(<<>>, 0))
    /\ (JsLe(StartIndex, Some(index)) /\ JsLt(Some(index), EndIndex)) =>
         (relative # None /\ relative[1].end = Point(<<>>, Len(Child.text)))

\* C3 as stated. Malformed range is dropped: when the start's or the end's
\* leading path component does not index an existing child, the projection
\* onto every child is null and the call does not throw.
Indexes(x) == x # None /\ x[1] < Len(node.nodes)

MalformedRangeDropped ==
  (Returned /\ (~Indexes(StartIndex) \/ ~Indexes(EndIndex))) =>
    (relative = None /\ ~raised)

\* C3 as amended. The projection onto every child is null, without a throw,
\* when the start's leading component is missing or past the last child, or
\* the end's leading component is missing.
MalformedStartOrMissingEndDropped ==
  (Returned /\ (~Indexes(StartIndex) \/ EndIndex = None)) =>
    (relative = None /\ ~raised)

\* A range whose end has no leading path component was projected onto the
\* child that holds its start, and came back null.
MalformedDroppedWitness ==
  /\ Returned
  /\ EndIndex = None
  /\ StartIndex = Some(index)
  /\ relative = None

\* C4. Endpoint containment: each endpoint of a non-null projection of a
\* well-formed range resolves, relative to the child, to a text and has an
\* offset within that text.
Contained(child, point) ==
  IF child.object = "text"
  THEN point.path = <<>> /\ point.offset \in 0..Len(child.text)
  ELSE point \in WellFormedPoints(child)

EndpointContainment ==
  (/\ Returned
   /\ range.start \in WellFormedPoints(node)
   /\ range.end \in WellFormedPoints(node)
   /\ relative # None) =>
    (Contained(Child, relative[1].start) /\ Contained(Child, relative[1].end))

\* C8. Rebase preserves everything but the leading path component: when both
\* endpoints lie under child i, the result is the range with the first
\* component of each path removed and nothing else changed.
RebasePreserves ==
  (Returned /\ StartIndex = Some(index) /\ EndIndex = Some(index)) =>
    relative = Some([range EXCEPT !.start.path = Tail(range.start.path),
                                  !.end.path = Tail(range.end.path)])

\* A decoration with both endpoints inside the nested inline of one child
\* was rebased onto that child.
RebasePreservesWitness ==
  /\ Returned
  /\ StartIndex = Some(index) /\ EndIndex = Some(index)
  /\ Len(range.start.path) = 3 /\ range.start.offset = 1
  /\ Len(range.end.path) = 3 /\ range.end.offset = 2
  /\ range.kind = "decoration"
  /\ relative # None
  /\ relative[1].kind = "decoration"

\* -------------------------------------- claims about shouldComponentUpdate

Gated == pc = "gated"

SameProps(p, n) ==
  /\ n.node = p.node
  /\ n.readOnly = p.readOnly
  /\ n.isSelected = p.isSelected
  /\ n.isFocused = p.isFocused
  /\ MapEquals(n.annotations, p.annotations)
  /\ ListEquals(n.decorations, p.decorations)

\* C5. Override cannot veto: with the hook returning false the result is the
\* one obtained with the hook returning nothing, and it is true when the
\* node reference differs.
OverrideCannotVeto ==
  (Gated /\ verdict = Some(FALSE)) =>
    /\ update = shouldComponentUpdate(props, nextProps, None)
    /\ (nextProps.node # props.node) => update

\* The hook returned false for props that differ only in the node reference,
\* and the component updates and warns.
OverrideCannotVetoWitness ==
  /\ Gated
  /\ verdict = Some(FALSE)
  /\ nextProps.node # props.node
  /\ nextProps = [props EXCEPT !.node = nextProps.node]
  /\ ~Truthy(props.isSelected) /\ ~Truthy(props.isFocused)
  /\ update
  /\ warned

\* C6 as stated. Idempotent re-render skip: whatever the flags, identical old
\* and new props with no positive verdict of the hook give no update.
IdenticalPropsSkip ==
  (Gated /\ ~Truthy(verdict) /\ SameProps(props, nextProps)) => ~update

\* C6 as amended. Identical old and new props in which the node is neither
\* selected nor focused, with no positive verdict of the hook, give no update.
IdenticalUnselectedPropsSkip ==
  (/\ Gated
   /\ ~Truthy(verdict)
   /\ SameProps(props, nextProps)
   /\ ~Truthy(props.isSelected)
   /\ ~Truthy(props.isFocused)) => ~update

\* The same read-only props with annotations and decorations, the node neither
\* selected nor focused, were compared and gave no update.
IdenticalSkipWitness ==
  /\ Gated
  /\ verdict = None
  /\ nextProps = props
  /\ props.readOnly
  /\ props.isSelected = Some(FALSE) /\ props.isFocused = Some(FALSE)
  /\ props.annotations # <<>> /\ props.decorations # <<>>
  /\ ~update

Changed(p, n) ==
  \/ n.readOnly # p.readOnly
  \/ n.node # p.node
  \/ ~MapEquals(n.annotations, p.annotations)
  \/ ~ListEquals(n.decorations, p.decorations)

\* C7 as stated. With no positive verdict of the hook, the component updates
\* exactly when the read-only flag, the node reference, the annotations or the
\* decorations differ, or the node is selected in the old or the new props, or
\* the focused flag differs.
UpdateIffFocusDiffers ==
  (Gated /\ ~Truthy(verdict)) =>
    (update <=> \/ Changed(props, nextProps)
                \/ Truthy(nextProps.isSelected) \/ Truthy(props.isSelected)
                \/ Truthy(nextProps.isFocused) # Truthy(props.isFocused))

\* C7 as amended. As stated, with "the node is focused in the old or the new
\* props" in place of "the focused flag differs".
UpdateIffFocusedEither ==
  (Gated /\ ~Truthy(verdict)) =>
    (update <=> \/ Changed(props, nextProps)
                \/ Truthy(nextProps.isSelected) \/ Truthy(props.isSelected)
                \/ Truthy(nextProps.isFocused) \/ Truthy(props.isFocused))

\* Props equal in everything, focused in both and selected in neither, made
\* the component update.
FocusedBothWitness ==
  /\ Gated
  /\ verdict = None
  /\ nextProps = props
  /\ props.isFocused = Some(TRUE)
  /\ ~Truthy(props.isSelected)
  /\ update

\* ------------------------------------------------------ claims about render

RECURSIVE NonNull(_, _, _)
NonNull(n, i, list) ==
  IF list = <<>> THEN <<>>
  ELSE LET r == getRelativeRange(n, i, Head(list))
       IN (IF r = None THEN <<>> ELSE <<r[1]>>) \o NonNull(n, i, Tail(list))

RECURSIVE NonNullEntries(_, _, _)
NonNullEntries(n, i, map) ==
  IF map = <<>> THEN <<>>
  ELSE LET r == getRelativeRange(n, i, Head(map).value)
       IN (IF r = None THEN <<>> ELSE <<[key |-> Head(map).key, value |-> r[1]]>>)
            \o NonNullEntries(n, i, Tail(map))

Overlays(p, fresh, kids) ==
  /\ Len(kids) = Len(p.node.nodes)
  /\ \A j \in 1..Len(kids) :
       /\ kids[j].decorations = NonNull(p.node, j - 1, fresh) \o p.decorations
       /\ kids[j].annotations = NonNullEntries(p.node, j - 1, p.annotations)

\* C9. The decorations given to child i are the non-null projections of the
\* node's fresh decorations, in order, followed by the inherited decorations
\* unprojected; the annotations given to child i are the non-null projections
\* of the inherited annotations.
ChildrenOverlays ==
  /\ (pc = "rendered") => Overlays(props, newDecorations, children)
  /\ (pc = "rerendered") => Overlays(nextProps, newDecorations, nextChildren)

\* A render with two fresh decorations, of which the first misses child 0 and
\* both reach child 1, and an annotation that misses child 2.
ChildrenOverlaysWitness ==
  /\ pc = "rendered"
  /\ Len(newDecorations) = 2
  /\ newDecorations[1].tag = "bold" /\ newDecorations[2].tag = "em"
  /\ Len(children[1].decorations) = 2
  /\ children[1].decorations[1].tag = "em"
  /\ Len(children[2].decorations) = 3
  /\ children[2].decorations[3] = props.decorations[1]
  /\ Len(children[2].annotations) = 1
  /\ children[3].annotations = <<>>

\* C10. A selection change reaches the update gate of the children: a child
\* that is not a text, kept over two passes with the same node, read-only
\* flag, annotations and decorations, and given a selection in the old or the
\* new pass, is told to update.
SelectionReachesChildGate ==
  (pc = "rerendered") =>
    \A j \in 1..Len(nextChildren) : \A k \in 1..Len(children) :
      (/\ children[k].key = nextChildren[j].key
       /\ nextChildren[j].component = "Node"
       /\ nextChildren[j].node = children[k].node
       /\ nextChildren[j].readOnly = children[k].readOnly
       /\ MapEquals(nextChildren[j].annotations, children[k].annotations)
       /\ ListEquals(nextChildren[j].decorations, children[k].decorations)
       /\ (children[k].selection # None \/ nextChildren[j].selection # None))
        => childUpdate[j] = Some(TRUE)

====
